---- MODULE Spec2Model ----
(***************************************************************************)
(* Virtuyal air monitor, browser side: the Sensor rolling buffers and the  *)
(* dashboard polling loop of DataMainpage.js, the history exporter of      *)
(* charts-history.js (second half of DataMainpage.js) and the auth form of *)
(* LoginLogic.js (src/unnamed/part_000).                                   *)
(*                                                                         *)
(* JavaScript values are modelled as records [t, v]: t is the typeof-like  *)
(* tag ("num", "str", "undef", "null"), v the number when t = "num".       *)
(* Strings whose characters matter (localStorage values, form fields) are  *)
(* sequences of one-character strings.                                     *)
(***************************************************************************)
EXTENDS Integers, Sequences, FiniteSets, TLC

VARIABLES
    sensor,             \* SpecSensor: one Sensor object
    calls,              \* SpecSensor: history of the payloads passed to addMeasurement
    clock,              \* wall clock in minutes since midnight (new Date())
    sensors,            \* let sensors: the online Sensor objects
    offlineSensors,     \* let offlineSensors
    activeSensorIndex,  \* let activeSensorIndex
    charts,             \* const charts: what the per-sensor charts show
    tiles,              \* the metric tiles: <<>> or <<deviceId, temperature, CO2>>
    chartRange,         \* value of the #chartRange select
    histReqs,           \* history requests of updateCharts awaiting their response
    polls,              \* calls of fetchLatestMeasurements
    lastDone,           \* the fetchLatestMeasurements call that returned last
    timerOn,            \* setInterval has been called
    startPc,            \* position of the start sequence
    devFetches,         \* fetchDevices calls awaiting their response, by caller
    devResp,            \* the json.data the last successful fetchDevices processed
    backendDevices,     \* the device list the backend answers getAllDevices with
    localStorage,       \* window.localStorage of the origin
    storageBlocked,     \* the browser denies access to localStorage: every access throws
    adminCheck,         \* the last __isAdmin() call: what it read and what it returned
    lastHistorySeries,  \* let lastHistorySeries
    lastHistoryMeta,    \* let lastHistoryMeta
    histLoads,          \* loadHistory calls awaiting their response
    exports,            \* the export calls made so far and the file each one produced
    pageEnv,            \* the history page: its canvas element and the jsPDF library
    form,               \* the auth form: isLogin, isResetPhase1, isResetPhase2, DOM, inputs
    authReqs,           \* requests of the submit handler awaiting their response
    navigated,          \* window.location.href has been set to index.html
    pageId              \* which load of the login page this is (modulo 2)

(***************************************************************************)
(* Program constants.                                                      *)
(***************************************************************************)
SENSOR_COUNT == 5
WINDOW_SIZE == 5

(***************************************************************************)
(* Bounds of the model.                                                    *)
(***************************************************************************)
MaxCalls == 6       \* addMeasurement calls on the sensor of SpecSensor
MaxDevices == 6     \* devices in a getAllDevices response (SpecDevices)
MaxPolls == 2       \* fetchLatestMeasurements calls in progress at once
MaxHistReqs == 1    \* history request batches in flight
MaxHistLoads == 1   \* loadHistory calls awaiting their response
MaxAuthReqs == 1    \* requests of the auth form awaiting their response

(***************************************************************************)
(* JavaScript values.                                                      *)
(***************************************************************************)
Num(n) == [t |-> "num", v |-> n]
Undef == [t |-> "undef", v |-> 0]
Null == [t |-> "null", v |-> 0]
StrVal == [t |-> "str", v |-> 0]

\* typeof x === 'number'
IsNumber(x) == x.t = "num"

\* a ?? b
Nullish(a, b) == IF a.t \in {"undef", "null"} THEN b ELSE a

(***************************************************************************)
(* Payloads of GET /sensor/getCurrentData: a record of the thirteen keys   *)
(* addMeasurement reads, and kind "object" or "null" (a non-object raw).   *)
(***************************************************************************)
RawKeys ==
    {"temp", "co2", "hum", "pm2_5", "pm10", "pm_3", "pm0_3", "pm1_0", "pm1",
     "tvoc", "aqi", "co", "hcho"}

MkRaw(kind, f) ==
    [kind |-> kind, temp |-> f["temp"], co2 |-> f["co2"], hum |-> f["hum"],
     pm2_5 |-> f["pm2_5"], pm10 |-> f["pm10"], pm_3 |-> f["pm_3"],
     pm0_3 |-> f["pm0_3"], pm1_0 |-> f["pm1_0"], pm1 |-> f["pm1"],
     tvoc |-> f["tvoc"], aqi |-> f["aqi"], co |-> f["co"], hcho |-> f["hcho"]]

\* every key numeric; the alias keys pm0_3 and pm1 carry another number than
\* the keys pm_3 and pm1_0 they stand in for
FullRaw(n) ==
    MkRaw("object", [k \in RawKeys |-> IF k \in {"pm0_3", "pm1"} THEN Num(n + 10) ELSE Num(n)])

\* only the alias keys pm0_3 and pm1 are present
AliasRaw(n) ==
    MkRaw("object", [k \in RawKeys |-> IF k \in {"pm0_3", "pm1"} THEN Num(n) ELSE Undef])

\* temp numeric, co2 null, every other key a non-numeric string
MixedRaw(n) ==
    MkRaw("object", [k \in RawKeys |-> IF k = "temp" THEN Num(n)
                                       ELSE IF k = "co2" THEN Null ELSE StrVal])

\* null, or any other value that is not an object
NullRaw == MkRaw("null", [k \in RawKeys |-> Undef])

SensorPayloads == {FullRaw(1), AliasRaw(3), MixedRaw(4), NullRaw}

(***************************************************************************)
(* new Date().toLocaleTimeString('de-DE', {hour:'2-digit', minute:         *)
(* '2-digit'}): the label is the hour and minute of the day.               *)
(***************************************************************************)
\* The model's clock runs from 23:59 to 00:00, so that labels differ and wrap.
MinutesPerDay == 24 * 60
ClockStart == MinutesPerDay - 1
ClockEnd == MinutesPerDay
FormatTime(t) == <<(t \div 60) % 24, t % 60>>

(***************************************************************************)
(* class Sensor                                                            *)
(***************************************************************************)
SeriesKeys ==
    {"tempData", "co2Data", "humidityData", "pm25Data", "pm10Data", "pm03Data",
     "pm1Data", "tvocData", "aqiData", "coData", "hchoData"}

NewSensor(id, deviceId, deviceName, classroomNumber, status) ==
    [id |-> id, deviceId |-> deviceId, deviceName |-> deviceName,
     classroomNumber |-> classroomNumber, status |-> status,
     timeLabels |-> <<>>,
     tempData |-> <<>>, co2Data |-> <<>>, humidityData |-> <<>>,
     pm25Data |-> <<>>, pm10Data |-> <<>>, pm03Data |-> <<>>, pm1Data |-> <<>>,
     tvocData |-> <<>>, aqiData |-> <<>>, coData |-> <<>>, hchoData |-> <<>>,
     humidity |-> Null, pm25 |-> Null, pm1_0 |-> Null, pm1 |-> Null,
     tvoc |-> Null, aqi |-> Null, co |-> Null, hcho |-> Null, pm10 |-> Null,
     pm03 |-> Null, lastRaw |-> NullRaw]

\* if(typeof x === 'number') arr.push(x)
PushIfNumber(arr, x) == IF IsNumber(x) THEN Append(arr, x.v) ELSE arr

\* if(typeof a === 'number') arr.push(a); else if(typeof b === 'number') arr.push(b)
PushFirstNumber(arr, a, b) ==
    IF IsNumber(a) THEN Append(arr, a.v)
    ELSE IF IsNumber(b) THEN Append(arr, b.v) ELSE arr

\* while(arr.length > WINDOW_SIZE) arr.shift()
RECURSIVE Trim(_)
TrimNoOp(arr) == arr
TrimNewest(arr) == IF Len(arr) > WINDOW_SIZE THEN SubSeq(arr, 1, WINDOW_SIZE) ELSE arr
Trim(arr) == IF Len(arr) > WINDOW_SIZE THEN Trim(Tail(arr)) ELSE arr

addMeasurement(s, raw, label) ==
    IF raw.kind # "object" THEN s
    ELSE [s EXCEPT
        !.lastRaw = raw,
        !.timeLabels = Trim(Append(@, label)),
        !.tempData = Trim(PushIfNumber(@, raw.temp)),
        !.co2Data = Trim(PushIfNumber(@, raw.co2)),
        !.humidityData = Trim(PushIfNumber(@, raw.hum)),
        !.pm25Data = Trim(PushIfNumber(@, raw.pm2_5)),
        !.pm10Data = Trim(PushIfNumber(@, raw.pm10)),
        !.pm03Data = Trim(PushFirstNumber(@, raw.pm_3, raw.pm0_3)),
        !.pm1Data = Trim(PushFirstNumber(@, raw.pm1_0, raw.pm1)),
        !.tvocData = Trim(PushIfNumber(@, raw.tvoc)),
        !.aqiData = Trim(PushIfNumber(@, raw.aqi)),
        !.coData = Trim(PushIfNumber(@, raw.co)),
        !.hchoData = Trim(PushIfNumber(@, raw.hcho)),
        !.humidity = Nullish(raw.hum, @),
        !.pm25 = Nullish(raw.pm2_5, @),
        !.pm1_0 = Nullish(raw.pm1_0, @),
        !.pm1 = Nullish(raw.pm1_0, Nullish(raw.pm1, @)),
        !.tvoc = Nullish(raw.tvoc, @),
        !.aqi = Nullish(raw.aqi, @),
        !.co = Nullish(raw.co, @),
        !.hcho = Nullish(raw.hcho, @),
        !.pm10 = Nullish(raw.pm10, @),
        !.pm03 = Nullish(raw.pm_3, Nullish(raw.pm0_3, @))]

(***************************************************************************)
(* Devices of GET /sensor/getAllDevices.  A device is [device_id, status,  *)
(* name, room]: device_id "" stands for a device none of whose id keys     *)
(* (device_id, DeviceID, id, deviceId) is truthy; status is the raw status *)
(* with its JavaScript type ("b:" boolean, "s:" string, "n:" number) or    *)
(* "undef"; name and room "" stand for a missing name or classroom.        *)
(***************************************************************************)
Device(id, status, name, room) ==
    [device_id |-> id, status |-> status, name |-> name, room |-> room]

\* rawStatus === true || 'true' || 'online' || 1 || '1'
IsOnline(rawStatus) == rawStatus \in {"b:true", "s:true", "s:online", "n:1", "s:1"}

\* (dev.status !== undefined ? dev.status : dev.Status) ?? dflt
StatusOr(rawStatus, dflt) == IF rawStatus \in {"undef", "null"} THEN dflt ELSE rawStatus

\* dev.name || dev.Name || dev.device_name || `${prefix} ${n}`
NameOr(name, prefix, n) == IF name = "" THEN <<prefix, n>> ELSE <<name, 0>>

RECURSIVE FilterOnline(_, _)
FilterOnline(all, want) ==
    IF all = <<>> THEN <<>>
    ELSE (IF IsOnline(Head(all).status) = want THEN <<Head(all)>> ELSE <<>>)
            \o FilterOnline(Tail(all), want)

\* onlineRaw.slice(0, SENSOR_COUNT)
SliceAll(seq) == seq
SliceCount(seq) == SubSeq(seq, 1, IF Len(seq) < SENSOR_COUNT THEN Len(seq) ELSE SENSOR_COUNT)

\* devices.forEach((dev, i) => { if(!deviceId) return; sensors.push(new Sensor(i, ...)) })
RECURSIVE BuildSensors(_, _)
BuildSensors(devices, i) ==
    IF i > Len(devices) THEN <<>>
    ELSE (IF devices[i].device_id = "" THEN <<>>
          ELSE <<NewSensor(i - 1, devices[i].device_id,
                           NameOr(devices[i].name, "Sensor", i), devices[i].room,
                           StatusOr(devices[i].status, "s:unknown"))>>)
            \o BuildSensors(devices, i + 1)

\* offlineRaw.map((dev, j) => ({...})).filter(d => !!d.deviceId)
RECURSIVE BuildOffline(_, _)
BuildOffline(offlineRaw, j) ==
    IF j > Len(offlineRaw) THEN <<>>
    ELSE (IF offlineRaw[j].device_id = "" THEN <<>>
          ELSE <<[deviceId |-> offlineRaw[j].device_id,
                  name |-> NameOr(offlineRaw[j].name, "Sensor (offline", j),
                  classroom |-> offlineRaw[j].room,
                  status |-> StatusOr(offlineRaw[j].status, "b:false")]>>)
            \o BuildOffline(offlineRaw, j + 1)

(***************************************************************************)
(* The dashboard's state as a record d, so that a handler is the           *)
(* composition of the functions it calls.                                  *)
(***************************************************************************)
HasActive(d) == d.activeSensorIndex >= 0 /\ d.activeSensorIndex < Len(d.sensors)

\* getActive(), where HasActive(d)
getActive(d) == d.sensors[d.activeSensorIndex + 1]

\* arr.at(-1), where arr is not empty
LastElem(arr) == arr[Len(arr)]

\* updateValues(): the tiles show the latest temperature and CO2 of the active
\* sensor; nothing changes without an active sensor or without both values
updateValues(d) ==
    IF ~HasActive(d) THEN d
    ELSE LET s == getActive(d)
         IN  IF Len(s.tempData) = 0 \/ Len(s.co2Data) = 0 THEN d
             ELSE [d EXCEPT !.tiles = <<s.deviceId, LastElem(s.tempData), LastElem(s.co2Data)>>]

\* the per-sensor Chart.js instances: whether they exist, and what they drew at
\* their last ch.update(): the range, the sensor and, for the live series, the
\* time labels the sensor held then (a history series has labels of its own)
NoCharts == [created |-> FALSE, range |-> "none", deviceId |-> "", labels |-> <<>>]
ChartsOf(range, deviceId, labels) ==
    [created |-> TRUE, range |-> range, deviceId |-> deviceId, labels |-> labels]

\* initCharts(): creates the Chart.js instances from the active sensor's series
initCharts(d) ==
    IF Len(d.sensors) = 0 THEN d
    ELSE IF ~HasActive(d) THEN d
    ELSE IF d.charts.created THEN d
    ELSE [d EXCEPT !.charts = ChartsOf("now", getActive(d).deviceId,
                                       getActive(d).timeLabels)]

\* updateCharts(): live series for range 'now', otherwise one batch of history
\* requests (cmpFetchHour / cmpFetchDay per chart).  tick tells what the run
\* goes back to: the range selected when the timer's callback started, or "none"
\* for a run no tick of the timer caused
updateCharts(d, tick) ==
    LET d1 == IF ~d.charts.created THEN initCharts(d) ELSE d
    IN  IF ~HasActive(d1) THEN d1
        ELSE IF ~d1.charts.created THEN d1
        ELSE IF d1.chartRange = "now"
             THEN [d1 EXCEPT !.charts = ChartsOf("now", getActive(d1).deviceId,
                                                 getActive(d1).timeLabels)]
             ELSE [d1 EXCEPT !.histReqs = @ \cup
                      {[tick |-> tick, range |-> d1.chartRange,
                        deviceId |-> getActive(d1).deviceId]}]

(***************************************************************************)
(* fetchDevices(), after its response arrived with json.success and an     *)
(* array json.data = resp.                                                 *)
(***************************************************************************)
fetchDevicesDone(d, resp) ==
    LET onlineRaw == FilterOnline(resp, TRUE)
        offlineRaw == FilterOnline(resp, FALSE)
        devices == SliceCount(onlineRaw)
        built == BuildSensors(devices, 1)
        d1 == [d EXCEPT
                !.sensors = built,
                !.offlineSensors = BuildOffline(offlineRaw, 1),
                !.activeSensorIndex =
                    IF @ >= Len(built) THEN (IF Len(built) > 0 THEN 0 ELSE -1) ELSE @,
                \* a poll in progress keeps iterating the array it started with
                !.polls = [p \in DOMAIN @ |->
                            IF @[p].pc = "await" THEN [@[p] EXCEPT !.detached = TRUE]
                            ELSE @[p]]]
    IN  updateCharts(updateValues(d1), "none")

(***************************************************************************)
(* Responses of GET /sensor/getCurrentData/<id>.  error: a network error,  *)
(* a non-OK status or a body that is no JSON.  Otherwise the payload is an *)
(* object or not; an object may hold a truthy data, and own holds the      *)
(* payload's own measurement keys.                                         *)
(***************************************************************************)
\* {}: an object without any of the keys
EmptyRaw == MkRaw("object", [k \in RawKeys |-> Undef])

ErrorResponse == [error |-> TRUE, object |-> FALSE, hasData |-> FALSE, data |-> NullRaw, own |-> NullRaw]
NullResponse == [error |-> FALSE, object |-> FALSE, hasData |-> FALSE, data |-> NullRaw, own |-> NullRaw]
WrappedResponse(m) == [error |-> FALSE, object |-> TRUE, hasData |-> TRUE, data |-> m, own |-> EmptyRaw]
DirectResponse(m) == [error |-> FALSE, object |-> TRUE, hasData |-> FALSE, data |-> NullRaw, own |-> m]

\* (payload && typeof payload === 'object') ? (payload.data || payload) : null
\* where NullRaw (kind "null") stands for null as for any other non-object
MeasurementOf(resp) ==
    IF ~resp.object THEN NullRaw
    ELSE IF resp.hasData THEN resp.data ELSE resp.own

(***************************************************************************)
(* fetchLatestMeasurements().  A call in progress is a record of polls:    *)
(* pc "await" while a request is out, idx the sensor (1-based) it asked    *)
(* for, len the length of the array it iterates, detached once             *)
(* fetchDevices has replaced that array.  added, skipped, failed and ui    *)
(* record what the call did: the sensors it called addMeasurement on with  *)
(* an object, those it passed over, whether it ended in the catch block,   *)
(* and whether it reached updateValues() and updateCharts().  When the     *)
(* call returns its record moves to lastDone (pc "done").                  *)
(***************************************************************************)
IdlePoll ==
    [pc |-> "idle", origin |-> "none", tick |-> "none", idx |-> 0, len |-> 0,
     detached |-> FALSE,
     added |-> {}, skipped |-> {}, failed |-> FALSE, ui |-> FALSE]

\* what follows `await fetchLatestMeasurements()` in its caller
\*   start: initCharts(); updateCharts(); ...; setInterval(..., 5000)
\*   timer: if(range === 'now') updateCharts()
afterPoll(d, poll) ==
    IF poll.origin = "start"
    THEN [updateCharts(initCharts(d), "none") EXCEPT !.timerOn = TRUE, !.startPc = "running"]
    ELSE IF d.chartRange = "now" THEN updateCharts(d, poll.tick) ELSE d

\* the end of fetchLatestMeasurements: the catch block, or updateValues() and
\* updateCharts(); then the caller goes on
finishPollNoUpdate(d, p, failed) ==
    afterPoll([d EXCEPT !.lastDone = [d.polls[p] EXCEPT !.pc = "done", !.failed = failed,
                                                        !.ui = FALSE, !.detached = FALSE,
                                                        !.tick = "none"],
                        !.polls[p] = IdlePoll], d.polls[p])
finishPollRefreshOnFailure(d, p, failed) ==
    LET d1 == updateCharts(updateValues(d), d.polls[p].tick)
    IN  afterPoll([d1 EXCEPT !.lastDone = [d.polls[p] EXCEPT !.pc = "done",
                                                            !.failed = failed,
                                                            !.ui = ~failed,
                                                            !.detached = FALSE,
                                                            !.tick = "none"],
                             !.polls[p] = IdlePoll], d.polls[p])
finishPoll(d, p, failed) ==
    LET d1 == IF failed THEN d ELSE updateCharts(updateValues(d), d.polls[p].tick)
    IN  afterPoll([d1 EXCEPT !.lastDone = [d.polls[p] EXCEPT !.pc = "done",
                                                            !.failed = failed,
                                                            !.ui = ~failed,
                                                            !.detached = FALSE,
                                                            !.tick = "none"],
                             !.polls[p] = IdlePoll], d.polls[p])

\* a slot no call in progress occupies
FreeSlots(d) == {p \in DOMAIN d.polls : d.polls[p].pc # "await"}

\* the call, up to its first await (every Sensor of the array has a deviceId,
\* so that no sensor is passed over by `if (!s.deviceId) continue`)
beginPoll(d, origin) ==
    LET p == CHOOSE q \in FreeSlots(d) : \A r \in FreeSlots(d) : q <= r
        d1 == [d EXCEPT !.polls[p] = [IdlePoll EXCEPT
                                        !.pc = "await", !.origin = origin,
                                        !.tick = IF origin = "timer" THEN d.chartRange
                                                 ELSE "none",
                                        !.idx = 1, !.len = Len(d.sensors)]]
    IN  IF Len(d.sensors) = 0 THEN finishPoll(d1, p, FALSE) ELSE d1

\* the response for sensor idx arrives
pollStep(d, p, resp, label) ==
    LET poll == d.polls[p]
        m == MeasurementOf(resp)
        adds == resp.object /\ m.kind = "object"
        d1 == [d EXCEPT
                !.sensors = IF adds /\ ~poll.detached
                            THEN [@ EXCEPT ![poll.idx] = addMeasurement(@, m, label)]
                            ELSE @,
                !.polls[p].added = IF adds THEN @ \cup {poll.idx} ELSE @,
                !.polls[p].skipped = IF adds THEN @ ELSE @ \cup {poll.idx}]
    IN  IF resp.error THEN finishPoll(d, p, TRUE)
        ELSE IF poll.idx >= poll.len THEN finishPoll(d1, p, FALSE)
        ELSE [d1 EXCEPT !.polls[p].idx = @ + 1]

(***************************************************************************)
(* SpecSensor: one Sensor object and any sequence of addMeasurement calls. *)
(***************************************************************************)
InitSensor ==
    /\ sensor = NewSensor(0, "d1", <<"Sensor", 1>>, "", "b:true")
    /\ calls = <<>>
    /\ clock = ClockStart

AddMeasurementCall ==
    /\ Len(calls) < MaxCalls
    /\ \E raw \in SensorPayloads :
        /\ sensor' = addMeasurement(sensor, raw, FormatTime(clock))
        /\ calls' = Append(calls, raw)
    /\ UNCHANGED clock

ClockTick ==
    /\ clock < ClockEnd
    /\ clock' = clock + 1
    /\ UNCHANGED <<sensor, calls>>

(***************************************************************************)
(* The dashboard page.  Init is the state once the script has run to its   *)
(* end: the start sequence has called fetchDevices and awaits it.          *)
(***************************************************************************)
dashVars ==
    <<sensors, offlineSensors, activeSensorIndex, charts, tiles, chartRange,
      histReqs, polls, lastDone, timerOn, startPc>>

Dash ==
    [sensors |-> sensors, offlineSensors |-> offlineSensors,
     activeSensorIndex |-> activeSensorIndex, charts |-> charts, tiles |-> tiles,
     chartRange |-> chartRange, histReqs |-> histReqs, polls |-> polls,
     lastDone |-> lastDone, timerOn |-> timerOn,
     startPc |-> startPc]

SetDash(d) ==
    /\ sensors' = d.sensors
    /\ offlineSensors' = d.offlineSensors
    /\ activeSensorIndex' = d.activeSensorIndex
    /\ charts' = d.charts
    /\ tiles' = d.tiles
    /\ chartRange' = d.chartRange
    /\ histReqs' = d.histReqs
    /\ polls' = d.polls
    /\ lastDone' = d.lastDone
    /\ timerOn' = d.timerOn
    /\ startPc' = d.startPc

InitDash ==
    /\ sensors = <<>>
    /\ offlineSensors = <<>>
    /\ activeSensorIndex = 0
    /\ charts = NoCharts
    /\ tiles = <<>>
    /\ chartRange = "now"
    /\ histReqs = {}
    /\ polls = [p \in 1..MaxPolls |-> IdlePoll]
    /\ lastDone = IdlePoll
    /\ timerOn = FALSE
    /\ startPc = "devices"
    /\ devFetches = {"start"}
    /\ devResp = [seen |-> FALSE, data |-> <<>>]

InitBackend == backendDevices = <<>>

\* room for the history requests a handler may send
HistRoom == chartRange = "now" \/ Cardinality(histReqs) < MaxHistReqs

\* the start sequence goes on once its fetchDevices has returned:
\* await fetchLatestMeasurements()
afterFetchDevices(d, origin) ==
    IF origin = "start" THEN beginPoll([d EXCEPT !.startPc = "measurements"], "start") ELSE d

\* window.fetchDevices(), called by another script of the page
FetchDevicesCall ==
    /\ "ext" \notin devFetches
    /\ devFetches' = devFetches \cup {"ext"}
    /\ UNCHANGED <<dashVars, devResp, backendDevices, sensor, calls, clock>>

\* the response: json.success with the backend's device list as json.data
FetchDevicesOk(origin) ==
    /\ origin \in devFetches
    /\ HistRoom
    /\ SetDash(afterFetchDevices(fetchDevicesDone(Dash, backendDevices), origin))
    /\ devFetches' = devFetches \ {origin}
    /\ devResp' = [seen |-> TRUE, data |-> backendDevices]
    /\ UNCHANGED <<backendDevices, sensor, calls, clock>>

\* a network error, a non-OK status, success false or a json.data that is no array
FetchDevicesRejected(origin) ==
    /\ origin \in devFetches
    /\ HistRoom
    /\ SetDash(afterFetchDevices(Dash, origin))
    /\ devFetches' = devFetches \ {origin}
    /\ UNCHANGED <<devResp, backendDevices, sensor, calls, clock>>

\* the response to the request a fetchLatestMeasurements call awaits
PollResponse(p, resp) ==
    /\ polls[p].pc = "await"
    /\ HistRoom
    /\ SetDash(pollStep(Dash, p, resp, FormatTime(clock)))
    /\ UNCHANGED <<devFetches, devResp, backendDevices, sensor, calls, clock>>

\* the setInterval callback starts: await fetchLatestMeasurements()
TimerTick ==
    /\ timerOn
    /\ FreeSlots(Dash) # {}
    /\ HistRoom
    /\ SetDash(beginPoll(Dash, "timer"))
    /\ UNCHANGED <<devFetches, devResp, backendDevices, sensor, calls, clock>>

\* change event of #chartRange: updateCharts()
ChangeRange(r) ==
    /\ r # chartRange
    /\ r = "now" \/ Cardinality(histReqs) < MaxHistReqs
    /\ SetDash(updateCharts([Dash EXCEPT !.chartRange = r], "none"))
    /\ UNCHANGED <<devFetches, devResp, backendDevices, sensor, calls, clock>>

\* click on the tab of sensor idx: updateValues(); updateCharts()
TabClick(idx) ==
    /\ idx >= 0 /\ idx < Len(sensors)
    /\ HistRoom
    /\ SetDash(updateCharts(updateValues([Dash EXCEPT !.activeSensorIndex = idx]), "none"))
    /\ UNCHANGED <<devFetches, devResp, backendDevices, sensor, calls, clock>>

\* the responses to one batch of history requests: the charts are given the
\* averages of the requested range, or empty series when the requests failed
HistoryResponse(req) ==
    /\ req \in histReqs
    /\ histReqs' = histReqs \ {req}
    /\ charts' = ChartsOf(req.range, req.deviceId, <<>>)
    /\ UNCHANGED <<sensors, offlineSensors, activeSensorIndex, tiles, chartRange, polls,
                   lastDone, timerOn, startPc, devFetches, devResp, backendDevices,
                   sensor, calls, clock>>

(***************************************************************************)
(* Strings whose characters matter are sequences of one-character strings. *)
(***************************************************************************)
S_true == <<"t", "r", "u", "e">>
S_True == <<"T", "r", "u", "e">>
S_false == <<"f", "a", "l", "s", "e">>
S_admin == <<"a", "d", "m", "i", "n">>
S_Admin == <<"A", "d", "m", "i", "n">>
S_ADMIN == <<"A", "D", "M", "I", "N">>
S_adminSpace == <<"a", "d", "m", "i", "n", " ">>
S_user == <<"u", "s", "e", "r">>
S_Gast == <<"G", "a", "s", "t">>
S_empty == <<>>

\* String.prototype.toLowerCase on the letters in use
UpperChars == <<"A", "D", "E", "G", "I", "M", "N", "R", "S", "T", "U">>
LowerChars == <<"a", "d", "e", "g", "i", "m", "n", "r", "s", "t", "u">>
toLowerCaseKeep(str) == str
toLowerCase(str) ==
    [i \in 1..Len(str) |->
        IF \E k \in 1..Len(UpperChars) : UpperChars[k] = str[i]
        THEN LowerChars[CHOOSE k \in 1..Len(UpperChars) : UpperChars[k] = str[i]]
        ELSE str[i]]

(***************************************************************************)
(* localStorage: for each key in use whether an item exists, and its       *)
(* value.  getItem gives null for a key without item.                      *)
(***************************************************************************)
StorageKeys == {"isLoggedIn", "userEmail", "userRole", "username"}
NoItem == [has |-> FALSE, v |-> S_empty]
Item(str) == [has |-> TRUE, v |-> str]
EmptyStorage == [k \in StorageKeys |-> NoItem]

\* localStorage.getItem(key) || ''
getItemOrEmpty(store, key) == IF store[key].has THEN store[key].v ELSE S_empty

\* __isAdmin(): threw tells whether the call ended with an exception
isAdminResult(value) == [value |-> value, threw |-> FALSE]
isAdmin(store, blocked) ==
    IF blocked THEN isAdminResult(FALSE)            \* getItem throws: catch(e){}
    ELSE IF ~(store["isLoggedIn"].has /\ store["isLoggedIn"].v = S_true)
         THEN isAdminResult(FALSE)
    ELSE IF toLowerCase(getItemOrEmpty(store, "userRole")) = S_admin
         THEN isAdminResult(TRUE)
    ELSE isAdminResult(FALSE)

(***************************************************************************)
(* The history chart (charts-history): loadHistory and the two exports.    *)
(***************************************************************************)
\* let lastHistorySeries = null; let lastHistoryMeta = null
NoSeries == [has |-> FALSE, data |-> <<>>]
NoMeta ==
    [has |-> FALSE, deviceId |-> "", sensorName |-> <<"", 0>>, room |-> "",
     metric |-> "", range |-> ""]

\* one point { ts, avg, n } of a history series
HistoryPoint == [ts |-> 1, avg |-> 21, n |-> 3]

\* the answer to a history request.  ok: res.ok and body.success !== false
\* (a network error or a body that is no JSON ends in the catch block, like a
\* failure); hasData: body.data is truthy
FailedHistory == [ok |-> FALSE, hasData |-> FALSE, data |-> <<>>]
HistoryWithoutData == [ok |-> TRUE, hasData |-> FALSE, data |-> <<>>]
HistoryOf(data) == [ok |-> TRUE, hasData |-> TRUE, data |-> data]

\* loadHistory() up to its await: the request it sends, or none.  idx is
\* parseInt(sensorSel.value, 10), with -1 standing for NaN
NoHistoryRequest == {}
loadHistoryRequest(list, idx, metric, range) ==
    IF idx < 0 \/ idx >= Len(list) THEN NoHistoryRequest
    ELSE {[deviceId |-> list[idx + 1].deviceId, sensorName |-> list[idx + 1].deviceName,
           room |-> list[idx + 1].classroomNumber, metric |-> metric, range |-> range]}

\* loadHistory() after its await: the cache [series, meta] it leaves
loadHistoryDone(cache, env, req, resp) ==
    IF ~resp.ok THEN cache
    ELSE IF ~env.canvas THEN cache                  \* ensureChart() gave null
    ELSE [series |-> [has |-> TRUE, data |-> IF resp.hasData THEN resp.data ELSE <<>>],
          meta |-> [has |-> TRUE, deviceId |-> req.deviceId, sensorName |-> req.sensorName,
                    room |-> req.room, metric |-> req.metric, range |-> req.range]]

\* what an export call hands to the browser: a file or nothing
NoFile == [made |-> FALSE, rows |-> 0, deviceId |-> ""]
FileOf(series, meta) == [made |-> TRUE, rows |-> Len(series.data), deviceId |-> meta.deviceId]

\* exportHistoryCSV()
exportHistoryCSVUnguarded(store, blocked, series, meta) == FileOf(series, meta)
exportHistoryCSV(store, blocked, series, meta) ==
    IF ~isAdmin(store, blocked).value THEN NoFile
    ELSE IF ~series.has \/ Len(series.data) = 0 \/ ~meta.has THEN NoFile
    ELSE FileOf(series, meta)

\* exportHistoryPDF()
exportHistoryPDF(store, blocked, series, meta, env) ==
    IF ~isAdmin(store, blocked).value THEN NoFile
    ELSE IF ~series.has \/ Len(series.data) = 0 \/ ~meta.has THEN NoFile
    ELSE IF ~env.jsPDF THEN NoFile
    ELSE IF ~env.canvas THEN NoFile
    ELSE FileOf(series, meta)

historyVars == <<lastHistorySeries, lastHistoryMeta, histLoads, exports, pageEnv>>
storageVars == <<localStorage, storageBlocked, adminCheck>>
liveVars ==
    <<sensor, calls, clock, sensors, offlineSensors, activeSensorIndex, charts, tiles,
      chartRange, histReqs, polls, lastDone, timerOn, startPc, devFetches, devResp,
      backendDevices>>

NoAdminCheck == [called |-> FALSE, isLoggedIn |-> NoItem, userRole |-> NoItem,
                 blocked |-> FALSE, result |-> isAdminResult(FALSE)]
NoExport == [seq |-> 0, kind |-> "none", file |-> NoFile]

InitStorage ==
    /\ localStorage = EmptyStorage
    /\ storageBlocked = FALSE
    /\ adminCheck = NoAdminCheck

InitHistory ==
    /\ lastHistorySeries = NoSeries
    /\ lastHistoryMeta = NoMeta
    /\ histLoads = {}
    /\ exports = NoExport
    /\ pageEnv = [canvas |-> TRUE, jsPDF |-> TRUE]

\* a call of __isAdmin()
IsAdminCall ==
    /\ adminCheck' = [called |-> TRUE, isLoggedIn |-> localStorage["isLoggedIn"],
                      userRole |-> localStorage["userRole"], blocked |-> storageBlocked,
                      result |-> isAdmin(localStorage, storageBlocked)]
    /\ UNCHANGED <<localStorage, storageBlocked>>

\* another page of the origin writes or removes an item (the login page does)
StorageWrite(key, item) ==
    /\ localStorage' = [localStorage EXCEPT ![key] = item]
    /\ UNCHANGED <<storageBlocked, adminCheck>>

\* change or click on the history controls: loadHistory()
LoadHistoryCall(idx, metric, range) ==
    /\ Cardinality(histLoads) < MaxHistLoads
    /\ histLoads' = histLoads \cup loadHistoryRequest(sensors, idx, metric, range)
    /\ UNCHANGED <<lastHistorySeries, lastHistoryMeta, exports, pageEnv>>

LoadHistoryResponse(req, resp) ==
    /\ req \in histLoads
    /\ histLoads' = histLoads \ {req}
    /\ LET cache == loadHistoryDone([series |-> lastHistorySeries, meta |-> lastHistoryMeta],
                                    pageEnv, req, resp)
       IN  /\ lastHistorySeries' = cache.series
           /\ lastHistoryMeta' = cache.meta
    /\ UNCHANGED <<exports, pageEnv>>

\* click on #historyExport
ExportCSVClick ==
    /\ exports' = [seq |-> 1 - exports.seq, kind |-> "csv",
                   file |-> exportHistoryCSV(localStorage, storageBlocked,
                                             lastHistorySeries, lastHistoryMeta)]
    /\ UNCHANGED <<lastHistorySeries, lastHistoryMeta, histLoads, pageEnv>>

\* click on #historyExportPdf
ExportPDFClick ==
    /\ exports' = [seq |-> 1 - exports.seq, kind |-> "pdf",
                   file |-> exportHistoryPDF(localStorage, storageBlocked,
                                             lastHistorySeries, lastHistoryMeta, pageEnv)]
    /\ UNCHANGED <<lastHistorySeries, lastHistoryMeta, histLoads, pageEnv>>

(***************************************************************************)
(* The auth form (LoginLogic).  An input's value is a sequence of          *)
(* characters.                                                             *)
(***************************************************************************)
\* String.prototype.trim
RECURSIVE TrimStart(_)
TrimStart(str) ==
    IF str # <<>> /\ Head(str) = " " THEN TrimStart(Tail(str)) ELSE str
RECURSIVE TrimEnd(_)
TrimEnd(str) ==
    IF str # <<>> /\ str[Len(str)] = " " THEN TrimEnd(SubSeq(str, 1, Len(str) - 1)) ELSE str
trim(str) == TrimEnd(TrimStart(str))

\* the elements updateMode hides or shows
AuthGroups ==
    {"toggle-text", "username-group", "confirm-group", "reset-code-group",
     "password-group", "forgot-wrap", "cancel-reset-wrap"}

\* updateMode(): title is formTitle.textContent, hidden the elements with class
\* hidden, required the inputs with the required flag.  Every branch ends with
\* a click listener on the toggle link in the document.
updateMode(f) ==
    IF f.isResetPhase1
    THEN [f EXCEPT !.title = "Passwort zurücksetzen",
                   !.hidden = AuthGroups \ {"cancel-reset-wrap"},
                   !.button = "Code anfordern",
                   !.required = {}]
    ELSE IF f.isResetPhase2
    THEN [f EXCEPT !.title = "Neues Passwort setzen",
                   !.hidden = {"toggle-text", "username-group", "forgot-wrap"},
                   !.passwordLabel = "Neues Passwort",
                   !.button = "Zurücksetzen",
                   !.required = {"password", "confirm-password"}]
    ELSE IF f.isLogin
    THEN [f EXCEPT !.title = "Login",
                   !.hidden = {"confirm-group", "username-group", "reset-code-group",
                               "cancel-reset-wrap"},
                   !.passwordLabel = "Passwort",
                   !.button = "Anmelden",
                   !.required = @ \ {"confirm-password", "username"}]
    ELSE [f EXCEPT !.title = "Registrierung",
                   !.hidden = {"forgot-wrap", "reset-code-group", "cancel-reset-wrap"},
                   !.passwordLabel = "Passwort",
                   !.button = "Registrieren",
                   !.required = @ \cup {"confirm-password", "username"}]

\* the inputs of the form
NoInputs ==
    [email |-> S_empty, password |-> S_empty, confirm |-> S_empty, username |-> S_empty,
     resetCode |-> S_empty]

\* initAuthLogic(): isLogin = true, both reset phases false, updateMode()
InitialForm ==
    updateMode([isLogin |-> TRUE, isResetPhase1 |-> FALSE, isResetPhase2 |-> FALSE,
                title |-> "", hidden |-> {}, passwordLabel |-> "Passwort", button |-> "",
                required |-> {}, inputs |-> NoInputs])

\* handleToggleClick
handleToggleClick(f) == updateMode([f EXCEPT !.isLogin = ~@])

\* click on the forgot-password link
forgotClick(f) ==
    updateMode([f EXCEPT !.isLogin = FALSE, !.isResetPhase1 = TRUE, !.isResetPhase2 = FALSE,
                         !.inputs.password = S_empty, !.inputs.confirm = S_empty])

\* click on the cancel-reset link
cancelResetClickKeepLogin(f) ==
    updateMode([f EXCEPT !.isResetPhase1 = FALSE, !.isResetPhase2 = FALSE,
                         !.inputs.password = S_empty, !.inputs.confirm = S_empty,
                         !.inputs.resetCode = S_empty])
cancelResetClick(f) ==
    updateMode([f EXCEPT !.isResetPhase1 = FALSE, !.isResetPhase2 = FALSE, !.isLogin = TRUE,
                         !.inputs.password = S_empty, !.inputs.confirm = S_empty,
                         !.inputs.resetCode = S_empty])

\* the submit handler up to its await: the request it sends, if any
NoAuthRequest == [send |-> FALSE, kind |-> "none", email |-> S_empty]
AuthRequest(kind, email) == [send |-> TRUE, kind |-> kind, email |-> email]
submitRequestNoConfirm(f) ==
    LET email == trim(f.inputs.email)
        password == trim(f.inputs.password)
        username == trim(f.inputs.username)
        resetCode == trim(f.inputs.resetCode)
    IN  IF f.isResetPhase1
        THEN (IF email = S_empty THEN NoAuthRequest ELSE AuthRequest("forgotpassword", email))
        ELSE IF f.isResetPhase2
        THEN (IF email = S_empty \/ resetCode = S_empty \/ password = S_empty
              THEN NoAuthRequest
              ELSE AuthRequest("resetPassword", email))
        ELSE IF email = S_empty \/ password = S_empty \/ (~f.isLogin /\ username = S_empty)
        THEN NoAuthRequest
        ELSE IF f.isLogin THEN AuthRequest("validateUser", email)
        ELSE AuthRequest("createUser", email)
submitRequest(f) ==
    LET email == trim(f.inputs.email)
        password == trim(f.inputs.password)
        username == trim(f.inputs.username)
        resetCode == trim(f.inputs.resetCode)
        confirmPassword == trim(f.inputs.confirm)
    IN  IF f.isResetPhase1
        THEN (IF email = S_empty THEN NoAuthRequest ELSE AuthRequest("forgotpassword", email))
        ELSE IF f.isResetPhase2
        THEN (IF email = S_empty \/ resetCode = S_empty \/ password = S_empty
              THEN NoAuthRequest
              ELSE IF password # confirmPassword THEN NoAuthRequest
              ELSE AuthRequest("resetPassword", email))
        ELSE IF email = S_empty \/ password = S_empty \/ (~f.isLogin /\ username = S_empty)
        THEN NoAuthRequest
        ELSE IF f.isLogin THEN AuthRequest("validateUser", email)
        ELSE IF password # confirmPassword THEN NoAuthRequest
        ELSE AuthRequest("createUser", email)

\* The answer to a request of the submit handler.  ok: the handler's test of
\* it succeeds (resp.ok; response.ok && data.success; response.ok &&
\* data.message), where a network error or an unreadable body counts as not
\* ok.  hasUser, username and role: data.user and its two fields, with the
\* empty string for a missing or empty field.
AuthFailed == [ok |-> FALSE, hasUser |-> FALSE, username |-> S_empty, role |-> S_empty]
AuthOk == [ok |-> TRUE, hasUser |-> FALSE, username |-> S_empty, role |-> S_empty]
AuthOkUser(username, role) ==
    [ok |-> TRUE, hasUser |-> TRUE, username |-> username, role |-> role]

\* the localStorage writes of a successful login
loginStoreKeepRole(store, email, resp) ==
    [store EXCEPT !["isLoggedIn"] = Item(S_true), !["userEmail"] = Item(email)]
loginStore(store, email, resp) ==
    LET s1 == [store EXCEPT !["isLoggedIn"] = Item(S_true),
                            !["userEmail"] = Item(email),
                            !["userRole"] = NoItem]
        s2 == IF resp.hasUser /\ resp.username # S_empty
              THEN [s1 EXCEPT !["username"] = Item(resp.username)] ELSE s1
        s3 == IF resp.hasUser /\ resp.role # S_empty
              THEN [s2 EXCEPT !["userRole"] = Item(resp.role)] ELSE s2
    IN  IF getItemOrEmpty(s3, "userRole") = S_empty
        THEN [s3 EXCEPT !["userRole"] = Item(S_Gast)] ELSE s3

\* the continuations of the submit handler after its await, on the form
forgotDoneKeepPhase1(f, resp) ==
    IF resp.ok THEN updateMode([f EXCEPT !.isResetPhase2 = TRUE]) ELSE f
forgotDone(f, resp) ==
    IF resp.ok
    THEN updateMode([f EXCEPT !.isResetPhase1 = FALSE, !.isResetPhase2 = TRUE,
                              !.inputs.password = S_empty, !.inputs.confirm = S_empty])
    ELSE f

resetDone(f, resp) ==
    IF resp.ok
    THEN updateMode([f EXCEPT !.isResetPhase2 = FALSE, !.isLogin = TRUE,
                              !.inputs.password = S_empty, !.inputs.confirm = S_empty,
                              !.inputs.resetCode = S_empty])
    ELSE f

createDone(f, resp) ==
    IF resp.ok
    THEN updateMode([f EXCEPT !.isLogin = TRUE, !.inputs.confirm = S_empty,
                              !.inputs.username = S_empty])
    ELSE f

authVars == <<form, authReqs, navigated, pageId>>

InitAuth ==
    /\ form = InitialForm
    /\ authReqs = {}
    /\ navigated = FALSE
    /\ pageId = 0

\* the user types into an input of the form
TypeInput(name, value) ==
    /\ ~navigated
    /\ form' = [form EXCEPT !.inputs[name] = value]
    /\ UNCHANGED <<authReqs, navigated, pageId, storageVars>>

\* the user clicks the toggle link, the forgot-password link, the cancel link
ToggleClick ==
    /\ ~navigated
    /\ "toggle-text" \notin form.hidden
    /\ form' = handleToggleClick(form)
    /\ UNCHANGED <<authReqs, navigated, pageId, storageVars>>

ForgotClick ==
    /\ ~navigated
    /\ "forgot-wrap" \notin form.hidden
    /\ form' = forgotClick(form)
    /\ UNCHANGED <<authReqs, navigated, pageId, storageVars>>

CancelResetClick ==
    /\ ~navigated
    /\ "cancel-reset-wrap" \notin form.hidden
    /\ form' = cancelResetClick(form)
    /\ UNCHANGED <<authReqs, navigated, pageId, storageVars>>

\* data.user is read of the answer to validateUser only: the answers to the
\* other requests are told apart by ok alone
IsAnswerTo(kind, resp) == kind = "validateUser" \/ ~resp.hasUser

\* the submit event: the handler runs up to its await; resp is the answer the
\* backend will give
Submit(resp) ==
    /\ ~navigated
    /\ LET req == submitRequest(form)
       IN  /\ req.send
           /\ IsAnswerTo(req.kind, resp)
           /\ Cardinality(authReqs) < MaxAuthReqs
           /\ authReqs' = authReqs \cup {[kind |-> req.kind, email |-> req.email,
                                          resp |-> resp]}
    /\ UNCHANGED <<form, navigated, pageId, storageVars>>

\* the answer to a request arrives and the handler runs to its end
AuthResponse(req) ==
    /\ req \in authReqs
    /\ authReqs' = authReqs \ {req}
    /\ form' = CASE req.kind = "forgotpassword" -> forgotDone(form, req.resp)
                 [] req.kind = "resetPassword" -> resetDone(form, req.resp)
                 [] req.kind = "createUser" -> createDone(form, req.resp)
                 [] OTHER -> form
    /\ IF req.kind = "validateUser" /\ req.resp.ok /\ ~storageBlocked
       THEN /\ localStorage' = loginStore(localStorage, req.email, req.resp)
            /\ navigated' = TRUE
       ELSE UNCHANGED <<localStorage, navigated>>     \* setItem throws: catch (err)
    /\ UNCHANGED <<pageId, storageBlocked, adminCheck>>

\* the login page is loaded anew: the script runs again, and the requests of
\* the page before are dropped
PageLoad ==
    /\ form' = InitialForm
    /\ authReqs' = {}
    /\ navigated' = FALSE
    /\ pageId' = 1 - pageId
    /\ UNCHANGED storageVars

pageVars == <<storageVars, historyVars, authVars>>
vars == <<liveVars, pageVars>>

InitPage == InitStorage /\ InitHistory /\ InitAuth
Init == InitSensor /\ InitDash /\ InitBackend /\ InitPage

(***************************************************************************)
(* SpecSensor: one Sensor object and any sequence of addMeasurement calls. *)
(***************************************************************************)
NextSensor ==
    \/ AddMeasurementCall /\ UNCHANGED <<dashVars, devFetches, devResp, backendDevices, pageVars>>
    \/ ClockTick /\ UNCHANGED <<dashVars, devFetches, devResp, backendDevices, pageVars>>

SpecSensor == Init /\ [][NextSensor]_vars

(***************************************************************************)
(* SpecDevices: fetchDevices on every device list of up to MaxDevices      *)
(* devices.  The device at position i has the id DeviceIds[i] or none and  *)
(* is online or not; the spelling of its status goes by its position.      *)
(***************************************************************************)
DeviceIds == <<"d1", "d2", "d3", "d4", "d5", "d6", "d7", "d8">>
OnlineSpellings == <<"b:true", "s:true", "s:online", "n:1", "s:1">>
OfflineSpellings == <<"b:false", "undef", "s:offline", "n:0", "null">>
DeviceKinds == {"id", "noid"} \X {"on", "off"}

DeviceList(kinds) ==
    [i \in 1..Len(kinds) |->
        Device(IF kinds[i][1] = "id" THEN DeviceIds[i] ELSE "",
               IF kinds[i][2] = "on" THEN OnlineSpellings[(i % Len(OnlineSpellings)) + 1]
               ELSE OfflineSpellings[(i % Len(OfflineSpellings)) + 1],
               "", "")]

DeviceResponses ==
    {DeviceList(kinds) : kinds \in UNION {[1..n -> DeviceKinds] : n \in 0..MaxDevices}}

InitDevices == InitSensor /\ InitDash /\ InitPage /\ backendDevices \in DeviceResponses

NextDevices ==
    \/ FetchDevicesCall /\ UNCHANGED pageVars
    \/ \E origin \in {"start", "ext"} : FetchDevicesOk(origin) /\ UNCHANGED pageVars
    \/ \E origin \in {"start", "ext"} : FetchDevicesRejected(origin) /\ UNCHANGED pageVars

SpecDevices == InitDevices /\ [][NextDevices]_vars

(***************************************************************************)
(* SpecPoll: the start sequence, the polling timer and the sensor tabs,    *)
(* with the chart range left at 'now'.                                     *)
(***************************************************************************)
DashDeviceLists ==
    {<<>>,
     <<Device("d1", "n:1", "Lab", ""), Device("d9", "b:false", "", ""),
       Device("d2", "s:online", "", "R2")>>}

PollResponses ==
    {ErrorResponse, NullResponse, WrappedResponse(FullRaw(1)), DirectResponse(FullRaw(1))}

InitDashboard == InitSensor /\ InitDash /\ InitPage /\ backendDevices \in DashDeviceLists

NextPoll ==
    \/ FetchDevicesOk("start") /\ UNCHANGED pageVars
    \/ FetchDevicesRejected("start") /\ UNCHANGED pageVars
    \/ \E p \in 1..MaxPolls, resp \in PollResponses :
            PollResponse(p, resp) /\ UNCHANGED pageVars
    \/ TimerTick /\ UNCHANGED pageVars
    \/ \E idx \in 0..(SENSOR_COUNT - 1) : TabClick(idx) /\ UNCHANGED pageVars

SpecPoll == InitDashboard /\ [][NextPoll]_vars

(***************************************************************************)
(* SpecDash: the start sequence, the polling timer and the user's clicks,  *)
(* on a backend without devices or with one online device and one that is  *)
(* offline.  No other script of the page calls window.fetchDevices.        *)
(***************************************************************************)
RangeDeviceLists ==
    {<<>>, <<Device("d9", "b:false", "", ""), Device("d1", "s:online", "", "R2")>>}

InitRanges == InitSensor /\ InitDash /\ InitPage /\ backendDevices \in RangeDeviceLists

NextDash ==
    \/ FetchDevicesOk("start") /\ UNCHANGED pageVars
    \/ FetchDevicesRejected("start") /\ UNCHANGED pageVars
    \/ \E p \in 1..MaxPolls, resp \in PollResponses :
            PollResponse(p, resp) /\ UNCHANGED pageVars
    \/ TimerTick /\ UNCHANGED pageVars
    \/ \E r \in {"now", "hour", "day"} : ChangeRange(r) /\ UNCHANGED pageVars
    \/ \E idx \in 0..(SENSOR_COUNT - 1) : TabClick(idx) /\ UNCHANGED pageVars
    \/ \E req \in histReqs : HistoryResponse(req) /\ UNCHANGED pageVars

SpecDash == InitRanges /\ [][NextDash]_vars

(***************************************************************************)
(* SpecAdmin: __isAdmin() on every content of the two items it reads, with *)
(* localStorage accessible or not.                                         *)
(***************************************************************************)
LoginFlags == {NoItem, Item(S_true), Item(S_True), Item(S_false), Item(S_empty)}
StoredRoles ==
    {NoItem, Item(S_admin), Item(S_Admin), Item(S_ADMIN), Item(S_adminSpace),
     Item(S_user), Item(S_Gast), Item(S_empty)}

InitAdmin ==
    /\ InitSensor /\ InitDash /\ InitBackend /\ InitHistory /\ InitAuth
    /\ localStorage = EmptyStorage
    /\ storageBlocked \in BOOLEAN
    /\ adminCheck = NoAdminCheck

NextAdmin ==
    \/ IsAdminCall /\ UNCHANGED <<liveVars, historyVars, authVars>>
    \/ \E item \in LoginFlags :
            StorageWrite("isLoggedIn", item) /\ UNCHANGED <<liveVars, historyVars, authVars>>
    \/ \E item \in StoredRoles :
            StorageWrite("userRole", item) /\ UNCHANGED <<liveVars, historyVars, authVars>>

SpecAdmin == InitAdmin /\ [][NextAdmin]_vars

(***************************************************************************)
(* SpecHistory: the history chart and its exports, once the device list    *)
(* has been loaded, for a guest, a user and an administrator.              *)
(***************************************************************************)
HistoryResponses ==
    {FailedHistory, HistoryWithoutData, HistoryOf(<<>>), HistoryOf(<<HistoryPoint>>)}

InitHistoryPage ==
    /\ InitSensor /\ InitDash /\ InitAuth
    /\ lastHistorySeries = NoSeries
    /\ lastHistoryMeta = NoMeta
    /\ histLoads = {}
    /\ exports = NoExport
    /\ pageEnv \in [canvas : BOOLEAN, jsPDF : BOOLEAN]
    /\ backendDevices \in DashDeviceLists
    /\ localStorage = EmptyStorage
    /\ storageBlocked \in BOOLEAN
    /\ adminCheck = NoAdminCheck

NextHistory ==
    \/ FetchDevicesOk("start") /\ UNCHANGED pageVars
    \/ \E item \in {NoItem, Item(S_true)} :
            StorageWrite("isLoggedIn", item) /\ UNCHANGED <<liveVars, historyVars, authVars>>
    \/ \E item \in {Item(S_Admin), Item(S_user)} :
            StorageWrite("userRole", item) /\ UNCHANGED <<liveVars, historyVars, authVars>>
    \/ \E idx \in {-1, 0, 1, 2}, range \in {"day", "week"} :
            LoadHistoryCall(idx, "temp", range) /\ UNCHANGED <<liveVars, storageVars, authVars>>
    \/ \E req \in histLoads, resp \in HistoryResponses :
            LoadHistoryResponse(req, resp) /\ UNCHANGED <<liveVars, storageVars, authVars>>
    \/ ExportCSVClick /\ UNCHANGED <<liveVars, storageVars, authVars>>
    \/ ExportPDFClick /\ UNCHANGED <<liveVars, storageVars, authVars>>

SpecHistory == InitHistoryPage /\ [][NextHistory]_vars

(***************************************************************************)
(* SpecAuth: the auth form, with any order of typing, clicks, submits,     *)
(* answers and page loads.                                                 *)
(***************************************************************************)
EmailInputs == {S_empty, <<" ">>, <<" ", "a", "@", "b", " ">>}
PasswordInputs == {S_empty, <<"p">>}
ConfirmInputs == {S_empty, <<"p", " ">>}
UsernameInputs == {S_empty, <<"u">>}
ResetCodeInputs == {S_empty, <<"c">>}

AuthResponses ==
    {AuthFailed, AuthOk, AuthOkUser(S_empty, S_admin), AuthOkUser(<<"u">>, S_empty)}

InitAuthPage ==
    /\ InitSensor /\ InitDash /\ InitBackend /\ InitHistory /\ InitAuth
    /\ localStorage = EmptyStorage
    /\ storageBlocked \in BOOLEAN
    /\ adminCheck = NoAdminCheck

NextAuth ==
    \/ \E v \in EmailInputs : TypeInput("email", v) /\ UNCHANGED <<liveVars, historyVars>>
    \/ \E v \in PasswordInputs : TypeInput("password", v) /\ UNCHANGED <<liveVars, historyVars>>
    \/ \E v \in ConfirmInputs : TypeInput("confirm", v) /\ UNCHANGED <<liveVars, historyVars>>
    \/ \E v \in UsernameInputs : TypeInput("username", v) /\ UNCHANGED <<liveVars, historyVars>>
    \/ \E v \in ResetCodeInputs : TypeInput("resetCode", v) /\ UNCHANGED <<liveVars, historyVars>>
    \/ ToggleClick /\ UNCHANGED <<liveVars, historyVars>>
    \/ ForgotClick /\ UNCHANGED <<liveVars, historyVars>>
    \/ CancelResetClick /\ UNCHANGED <<liveVars, historyVars>>
    \/ \E resp \in AuthResponses : Submit(resp) /\ UNCHANGED <<liveVars, historyVars>>
    \/ \E req \in authReqs : AuthResponse(req) /\ UNCHANGED <<liveVars, historyVars>>
    \/ PageLoad /\ UNCHANGED <<liveVars, historyVars>>

SpecAuth == InitAuthPage /\ [][NextAuth]_vars

(***************************************************************************)
(* C1, C2: the rolling buffers.                                            *)
(***************************************************************************)
BufferKeys == SeriesKeys \cup {"timeLabels"}

\* the payload keys a series is fed from, in the order of preference
KeysOfSeries(key) ==
    CASE key = "tempData" -> <<"temp">>
      [] key = "co2Data" -> <<"co2">>
      [] key = "humidityData" -> <<"hum">>
      [] key = "pm25Data" -> <<"pm2_5">>
      [] key = "pm10Data" -> <<"pm10">>
      [] key = "pm03Data" -> <<"pm_3", "pm0_3">>
      [] key = "pm1Data" -> <<"pm1_0", "pm1">>
      [] key = "tvocData" -> <<"tvoc">>
      [] key = "aqiData" -> <<"aqi">>
      [] key = "coData" -> <<"co">>
      [] key = "hchoData" -> <<"hcho">>

\* the numeric values a payload carries for a series: none, or the one of the
\* first key that holds a number
CarriedValues(raw, key) ==
    LET ks == KeysOfSeries(key)
    IN  IF raw.kind # "object" THEN <<>>
        ELSE IF raw[ks[1]].t = "num" THEN <<raw[ks[1]].v>>
        ELSE IF Len(ks) > 1 /\ raw[ks[2]].t = "num" THEN <<raw[ks[2]].v>>
        ELSE <<>>

\* the values of a series over the payloads log[i..], in arrival order
RECURSIVE ArrivedFrom(_, _, _)
ArrivedFrom(log, key, i) ==
    IF i > Len(log) THEN <<>>
    ELSE CarriedValues(log[i], key) \o ArrivedFrom(log, key, i + 1)

ArrivedValues(log, key) == ArrivedFrom(log, key, 1)

LastOf(seq, n) == SubSeq(seq, Len(seq) - n + 1, Len(seq))

MinOf(a, b) == IF a <= b THEN a ELSE b

\* C1: after any sequence of addMeasurement calls, timeLabels and each of the
\* eleven data series hold at most WINDOW_SIZE entries.
C1_WindowBound ==
    \A key \in BufferKeys : Len(sensor[key]) <= WINDOW_SIZE

\* more than WINDOW_SIZE samples arrived and the buffers are full
C1_Witness ==
    /\ Len(ArrivedValues(calls, "tempData")) > WINDOW_SIZE
    /\ Len(sensor.tempData) = WINDOW_SIZE
    /\ Len(sensor.timeLabels) = WINDOW_SIZE

\* C2: each series equals the last min(k, WINDOW_SIZE) of the k numeric values
\* that arrived for its metric, in arrival order.
C2_LastValuesInOrder ==
    \A key \in SeriesKeys :
        LET arrived == ArrivedValues(calls, key)
        IN  sensor[key] = LastOf(arrived, MinOf(Len(arrived), WINDOW_SIZE))

\* an old value has been evicted from a series whose values differ, and the
\* alias-fed series took a value from an alias key
C2_Witness ==
    /\ Len(ArrivedValues(calls, "pm03Data")) > WINDOW_SIZE
    /\ sensor.pm03Data # SubSeq(ArrivedValues(calls, "pm03Data"), 1, WINDOW_SIZE)
    /\ \E i \in 1..Len(sensor.pm03Data) : sensor.pm03Data[i] = 3
    /\ \E i \in 1..Len(sensor.pm03Data) : sensor.pm03Data[i] = 1

(***************************************************************************)
(* fetchDevices: the two lists against the response they were built from   *)
(***************************************************************************)
\* the positions of the response that hold a device with this id
PositionsOf(resp, id) == {i \in 1..Len(resp) : resp[i].device_id = id}

\* the ids of the response's devices that are not online and have an id, in order
RECURSIVE OfflineIdsFrom(_, _)
OfflineIdsFrom(resp, i) ==
    IF i > Len(resp) THEN <<>>
    ELSE (IF ~IsOnline(resp[i].status) /\ resp[i].device_id # ""
          THEN <<resp[i].device_id>> ELSE <<>>) \o OfflineIdsFrom(resp, i + 1)

\* C3: after every successful fetchDevices, sensors holds at most SENSOR_COUNT
\* entries, every entry is a device the response reported online and has a
\* non-empty deviceId, the entries keep the response order, offlineSensors holds
\* every non-online device of the response that has a device id, and no device
\* is in both lists.
C3_ListsFollowResponse ==
    devResp.seen =>
        LET resp == devResp.data
        IN  /\ Len(sensors) <= SENSOR_COUNT
            /\ \A k \in 1..Len(sensors) :
                /\ sensors[k].deviceId # ""
                /\ \E i \in PositionsOf(resp, sensors[k].deviceId) : IsOnline(resp[i].status)
            /\ \A k, l \in 1..Len(sensors) :
                k < l => \E i \in PositionsOf(resp, sensors[k].deviceId),
                            j \in PositionsOf(resp, sensors[l].deviceId) : i < j
            /\ [j \in 1..Len(offlineSensors) |-> offlineSensors[j].deviceId]
                    = OfflineIdsFrom(resp, 1)
            /\ \A k \in 1..Len(sensors), j \in 1..Len(offlineSensors) :
                sensors[k].deviceId # offlineSensors[j].deviceId

\* a response with more online devices than SENSOR_COUNT has been cut to
\* SENSOR_COUNT sensors
C3_Witness ==
    /\ devResp.seen
    /\ Len(FilterOnline(devResp.data, TRUE)) > SENSOR_COUNT
    /\ Len(sensors) = SENSOR_COUNT

(***************************************************************************)
(* fetchLatestMeasurements                                                 *)
(***************************************************************************)
\* what the tiles show once updateValues() has run on these sensors
TilesAfterUpdate(ss, active, old) ==
    IF active >= 0 /\ active < Len(ss)
       /\ Len(ss[active + 1].tempData) > 0 /\ Len(ss[active + 1].co2Data) > 0
    THEN <<ss[active + 1].deviceId, ss[active + 1].tempData[Len(ss[active + 1].tempData)],
           ss[active + 1].co2Data[Len(ss[active + 1].co2Data)]>>
    ELSE old

C4_PollStep ==
    \A p \in 1..MaxPolls :
        (polls[p].pc = "await" /\ polls'[p] # polls[p]) =>
            LET poll == polls[p]
                i == poll.idx
                ended == polls'[p].pc # "await"
                after == IF ended THEN lastDone' ELSE polls'[p]
            IN  /\ Len(sensors') = Len(sensors)
                /\ \A k \in 1..Len(sensors) : k # i => sensors'[k] = sensors[k]
                /\ i \in after.added =>
                    /\ i \notin poll.added
                    /\ sensors'[i].timeLabels
                            = Trim(Append(sensors[i].timeLabels, FormatTime(clock)))
                /\ i \notin after.added => sensors'[i] = sensors[i]
                /\ ~ended => after.idx = i + 1 /\ after.added \cup after.skipped = 1..i
                /\ (ended /\ ~after.failed) =>
                    /\ after.added \cup after.skipped = 1..poll.len
                    /\ after.added \cap after.skipped = {}
                    /\ tiles' = TilesAfterUpdate(sensors', activeSensorIndex', tiles)
                    /\ chartRange' = "now" =>
                        charts' = ChartsOf("now", sensors'[activeSensorIndex' + 1].deviceId,
                                          sensors'[activeSensorIndex' + 1].timeLabels)
C5_TimerSendsNoHistoryRequest == \A r \in histReqs : r.tick \notin {"hour", "day"}

\* C6: at page start the Chart.js instances are created only after the device
\* list is loaded and the first measurements are fetched, and the polling
\* timer is started only after all these steps.
C6_ChartsAfterFirstMeasurements ==
    /\ charts.created => startPc = "running"
    /\ timerOn => startPc = "running"

(***************************************************************************)
(* The admin check and the exports                                         *)
(***************************************************************************)
\* every spelling of 'admin' in lower and upper case letters
AdminSpellings ==
    {[i \in 1..Len(S_admin) |-> IF i \in U THEN S_ADMIN[i] ELSE S_admin[i]] :
        U \in SUBSET (1..Len(S_admin))}

\* the items say: logged in, as an administrator
StoredAdmin(isLoggedIn, userRole) ==
    /\ isLoggedIn = Item(S_true)
    /\ userRole.has
    /\ \E spelling \in AdminSpellings : userRole.v = spelling

\* C7: __isAdmin() returns true if and only if the item isLoggedIn is exactly
\* 'true' and the item userRole equals 'admin' case-insensitively; it returns
\* false, and does not throw, when access to localStorage throws.
C7_AdminIffLoggedInAdmin ==
    adminCheck.called =>
        /\ ~adminCheck.result.threw
        /\ adminCheck.result.value
            = (~adminCheck.blocked /\ StoredAdmin(adminCheck.isLoggedIn, adminCheck.userRole))

\* __isAdmin() has returned true on a role stored with a capital letter
C7_Witness ==
    /\ adminCheck.called
    /\ adminCheck.result.value
    /\ adminCheck.userRole = Item(S_Admin)

\* C8: exportHistoryCSV and exportHistoryPDF produce a file only when the admin
\* check is true at the time of the call and loadHistory has cached a non-empty
\* series with its metadata; no call changes the cached series and metadata.
C8_ExportStep ==
    exports' # exports =>
        /\ exports'.file.made =>
            /\ ~storageBlocked
            /\ StoredAdmin(localStorage["isLoggedIn"], localStorage["userRole"])
            /\ lastHistorySeries.has /\ Len(lastHistorySeries.data) > 0
            /\ lastHistoryMeta.has
            /\ exports'.file.deviceId = lastHistoryMeta.deviceId
        /\ lastHistorySeries' = lastHistorySeries
        /\ lastHistoryMeta' = lastHistoryMeta
C8_ExportOnlyForAdminWithData == [][C8_ExportStep]_vars

\* a CSV export has produced a file
C8_Witness ==
    /\ exports.kind = "csv"
    /\ exports.file.made
    /\ exports.file.rows > 0

(***************************************************************************)
(* The auth form                                                           *)
(***************************************************************************)
\* C9: after every successful login localStorage holds isLoggedIn = 'true',
\* userEmail = the submitted email and userRole = the role the backend
\* delivered, or 'Gast' if it delivered none, whatever role was stored before;
\* a failed login leaves localStorage unchanged.  (A page whose access to
\* localStorage throws stores nothing.)
C9_LoginStep ==
    \A req \in authReqs :
        (req \notin authReqs' /\ pageId' = pageId /\ req.kind = "validateUser") =>
            IF req.resp.ok /\ ~storageBlocked
            THEN /\ localStorage'["isLoggedIn"] = Item(S_true)
                 /\ localStorage'["userEmail"] = Item(req.email)
                 /\ localStorage'["userRole"]
                        = Item(IF req.resp.role # S_empty THEN req.resp.role ELSE S_Gast)
            ELSE localStorage' = localStorage
C10_OneModeAtATime ==
    /\ ~(form.isResetPhase1 /\ form.isResetPhase2)
    /\ form.title = (IF form.isResetPhase1 THEN "Passwort zurücksetzen"
                     ELSE IF form.isResetPhase2 THEN "Neues Passwort setzen"
                     ELSE IF form.isLogin THEN "Login" ELSE "Registrierung")
    /\ ("cancel-reset-wrap" \notin form.hidden) = (form.isResetPhase1 \/ form.isResetPhase2)

\* Reset Phase 2 has been entered although the reset had been cancelled while
\* the forgot-password request was out
C10_Witness ==
    /\ form.isResetPhase2
    /\ form.isLogin
    /\ form.title = "Neues Passwort setzen"

\* the form is in Login mode
InLoginMode(f) ==
    /\ f.isLogin /\ ~f.isResetPhase1 /\ ~f.isResetPhase2
    /\ f.title = "Login"

\* C11: Reset Phase 2 is entered only by an OK answer to a forgot-password
\* request, a resetPassword request is sent only by a submit made in Reset
\* Phase 2, and an OK answer to it clears the reset phase and puts the form in
\* Login mode.
C11_ResetStep ==
    /\ (form'.isResetPhase2 /\ ~form.isResetPhase2) =>
            \E req \in authReqs \ authReqs' : req.kind = "forgotpassword" /\ req.resp.ok
    /\ \A req \in authReqs' \ authReqs :
            req.kind = "resetPassword" => form.isResetPhase2 /\ ~form.isResetPhase1
    /\ \A req \in authReqs \ authReqs' :
            (pageId' = pageId /\ req.kind = "resetPassword" /\ req.resp.ok) => InLoginMode(form')
C11_TwoStepReset == [][C11_ResetStep]_vars

\* the three mode flags of the form
ModeFlags(f) == <<f.isLogin, f.isResetPhase1, f.isResetPhase2>>

\* C12: a click on the cancel-reset link in Reset Phase 1 or Reset Phase 2
\* returns the form to Login mode: immediately after it isResetPhase1 and
\* isResetPhase2 are false and isLogin is true.  (In a reset phase the toggle
\* and the forgot-password link are hidden: the click on the cancel link is
\* the only event besides an answer and a page load that changes a flag.)
C12_CancelStep ==
    ( /\ form.isResetPhase1 \/ form.isResetPhase2
      /\ authReqs' = authReqs
      /\ pageId' = pageId
      /\ ModeFlags(form') # ModeFlags(form) )
        => /\ InLoginMode(form')
           /\ "cancel-reset-wrap" \notin form.hidden
C12_CancelReturnsToLogin == [][C12_CancelStep]_vars

\* the form is back in Login mode while the forgot-password request sent from
\* Reset Phase 1 is still out: the reset has been cancelled
C12_Witness ==
    /\ InLoginMode(form)
    /\ \E req \in authReqs : req.kind = "forgotpassword"

(***************************************************************************)
(* Sensor.id, the polling timer                                            *)
(***************************************************************************)
\* C13: Sensor.id is the sensor's index in the UI lists: after every
\* successful fetchDevices, sensors[s.id] === s for every sensor s.
C13_IdIsIndex ==
    devResp.seen => \A k \in 1..Len(sensors) : sensors[k].id = k - 1

\* the executions of fetchLatestMeasurements that wait for a response
PollsInProgress == {p \in DOMAIN polls : polls[p].pc = "await"}

\* C14: at most one execution of fetchLatestMeasurements is in progress at any
\* time: a timer tick never starts a new poll while an earlier poll is still
\* awaiting a response.
C14_OnePollAtATime == Cardinality(PollsInProgress) <= 1

(***************************************************************************)
(* A failed request of fetchLatestMeasurements                             *)
(***************************************************************************)
\* the step in which call p of fetchLatestMeasurements ends in its catch block
FailedPollEnd(p) ==
    /\ polls[p].pc = "await"
    /\ polls'[p].pc # "await"
    /\ lastDone'.failed

\* C15 as stated, for the polls the timer starts: when a request fails the poll
\* stops at that sensor, no sensor changes any more, the tiles and the charts
\* are not refreshed in this cycle, and the call returns.
C15_NoRefreshStep ==
    \A p \in 1..MaxPolls :
        (FailedPollEnd(p) /\ polls[p].origin = "timer") =>
            /\ sensors' = sensors
            /\ tiles' = tiles
            /\ charts' = charts
            /\ polls'[p] = IdlePoll
C15_FailedPollRefreshesNothing == [][C15_NoRefreshStep]_vars

\* C15, amended: when a request of fetchLatestMeasurements fails the call ends
\* at that sensor: the sensors before it were asked and keep what this call
\* added, no sensor changes in this step, the later sensors were never asked,
\* the tiles are not refreshed, and the call returns, so that the timer runs
\* (the start sequence creates it, a tick leaves it on).  The charts are not
\* refreshed by fetchLatestMeasurements, but its caller redraws them: while the
\* range is 'now' they show the active sensor's buffers after this step,
\* samples of this cycle included; in another range a tick leaves them alone.
C15_FailedPollStep ==
    \A p \in 1..MaxPolls :
        FailedPollEnd(p) =>
            LET poll == polls[p]
                active == activeSensorIndex + 1
            IN  /\ sensors' = sensors
                /\ lastDone'.added = poll.added
                /\ poll.added \cup poll.skipped = 1..(poll.idx - 1)
                /\ ~lastDone'.ui
                /\ tiles' = tiles
                /\ polls'[p] = IdlePoll
                /\ timerOn'
                /\ activeSensorIndex' = activeSensorIndex
                /\ (chartRange = "now" /\ active \in 1..Len(sensors)) =>
                        charts' = ChartsOf("now", sensors[active].deviceId,
                                           sensors[active].timeLabels)
                /\ (chartRange # "now" /\ poll.origin = "timer") =>
                        charts' = charts /\ histReqs' = histReqs
C15_FailedPollStopsAndReturns == [][C15_FailedPollStep]_vars

\* a poll of the timer has failed at the second sensor after adding a sample to
\* the first, the active one: the tiles still show nothing, the charts have
\* been redrawn with that sample
C15_Witness ==
    /\ lastDone.pc = "done"
    /\ lastDone.failed
    /\ lastDone.origin = "timer"
    /\ lastDone.added = {1}
    /\ lastDone.idx = 2
    /\ activeSensorIndex = 0
    /\ tiles = <<>>
    /\ charts.created
    /\ charts.labels = sensors[1].timeLabels
    /\ Len(charts.labels) = 1

(***************************************************************************)
(* The submit handler's validation                                         *)
(***************************************************************************)
\* the positions of str that hold something else than a blank
InkOf(str) == {i \in 1..Len(str) : str[i] # " "}

\* str holds a character that is not a blank
Filled(str) == InkOf(str) # {}

\* str from its first to its last non-blank character
CoreOf(str) ==
    IF InkOf(str) = {} THEN <<>>
    ELSE LET first == CHOOSE i \in InkOf(str) : \A j \in InkOf(str) : i <= j
             last == CHOOSE i \in InkOf(str) : \A j \in InkOf(str) : i >= j
         IN  SubSeq(str, first, last)

\* C16: the submit handler sends a request only when the input of the current
\* mode is valid (Reset Phase 1: an email; Reset Phase 2: email, code and
\* password, the password equal to its confirmation; login: email and
\* password; registration: email, username and password, the password equal
\* to its confirmation; all after trimming), and a non-OK response or a
\* network error never changes isLogin, isResetPhase1 or isResetPhase2.
C16_SubmitStep ==
    /\ \A req \in authReqs' \ authReqs :
        LET in == form.inputs
            matching == CoreOf(in.password) = CoreOf(in.confirm)
        IN  /\ req.email = CoreOf(in.email)
            /\ Filled(in.email)
            /\ form' = form
            /\ CASE form.isResetPhase1 -> req.kind = "forgotpassword"
                 [] ~form.isResetPhase1 /\ form.isResetPhase2 ->
                        /\ req.kind = "resetPassword"
                        /\ Filled(in.resetCode) /\ Filled(in.password) /\ matching
                 [] ~form.isResetPhase1 /\ ~form.isResetPhase2 /\ form.isLogin ->
                        /\ req.kind = "validateUser"
                        /\ Filled(in.password)
                 [] OTHER ->
                        /\ req.kind = "createUser"
                        /\ Filled(in.username) /\ Filled(in.password) /\ matching
    /\ \A req \in authReqs \ authReqs' :
        (pageId' = pageId /\ ~req.resp.ok) =>
            /\ ModeFlags(form') = ModeFlags(form)
            /\ form'.title = form.title
C16_ValidInputAndModeKept == [][C16_SubmitStep]_vars

\* a registration whose password and confirmation differ only by a blank is
\* out, and the backend will refuse it
C16_Witness ==
    /\ ~form.isLogin /\ ~form.isResetPhase1 /\ ~form.isResetPhase2
    /\ form.inputs.password # form.inputs.confirm
    /\ \E req \in authReqs : req.kind = "createUser" /\ ~req.resp.ok
====
